---- MODULE Spec2Model ----
(***************************************************************************)
(* Model of main.py: an HTTP server (HTTPRequestHandler) that forwards a   *)
(* submitted form over a fresh TCP connection to the socket server         *)
(* (socket_server), which stores one document per connection in MongoDB.   *)
(*                                                                         *)
(* Byte strings are modelled as sequences of tokens: a JSON text is the    *)
(* sequence of its lexical tokens, a form body the sequence of its         *)
(* key=value pairs.  The HTTP client is assumed to send a well-formed      *)
(* request (integer Content-Length, url-encoded ASCII body) and to stay    *)
(* connected until the response is written.                                *)
(***************************************************************************)
EXTENDS Naturals, Sequences, FiniteSets

\* ---------------------------------------------------------------- bounds
MaxConn == 2      \* TCP connections ever made to the socket server's port

\* ------------------------------------------------------------- constants
max_retries == 30
retry_delay == 1

\* --------------------------------------------------------- pure helpers
Prefix(s, n) == SubSeq(s, 1, n)
Suffix(s, n) == SubSeq(s, n + 1, Len(s))

\* A url-encoded form body is the sequence of its key=value pairs.
U(v) == <<"username", v>>
M(v) == <<"message", v>>
FormKeys == {"username", "message"}
FormBodies ==
    { << >>,
      <<U("alice")>>,
      <<M("hi")>>,
      <<U(""), M("hi")>>,
      <<U("alice"), M("")>>,
      <<U("alice"), M("hi")>>,
      <<M("hi"), U("alice")>> }

\* urllib.parse.parse_qs: pairs with a blank value are dropped, the values of
\* a repeated key are listed in order of appearance
QsValues(qs, k) ==
    LET F[i \in 0..Len(qs)] ==
            IF i = 0 THEN << >>
            ELSE IF qs[i][1] = k /\ qs[i][2] # ""
                 THEN Append(F[i - 1], qs[i][2])
                 ELSE F[i - 1]
    IN F[Len(qs)]

parse_qs(qs) ==
    [k \in {key \in FormKeys : QsValues(qs, key) # << >>} |-> QsValues(qs, k)]

\* form_data.get(k, [""])[0]
form_get(form_data, k) ==
    IF k \in DOMAIN form_data THEN form_data[k][1] ELSE ""

\* A JSON text is the sequence of its tokens: the braces and brackets, one
\* token per "key": value member, and Bad for a byte that is not UTF-8.
Tok(k, v) == [k |-> k, v |-> v]
LBrace == Tok("{", "")
RBrace == Tok("}", "")
LBracket == Tok("[", "")
RBracket == Tok("]", "")
BadByte == Tok("\\xff", "")
Punctuation == {LBrace, RBrace, LBracket, RBracket, BadByte}

\* json_dumps with the two values under each other's key
json_dumps_swapped(username, message) ==
    <<LBrace, Tok("username", message), Tok("message", username), RBrace>>

\* json.dumps({"username": username, "message": message}).encode("utf-8")
json_dumps(username, message) ==
    <<LBrace, Tok("username", username), Tok("message", message), RBrace>>

\* bytes.decode("utf-8"): fails on an invalid byte
DecodeOk(bytes) == \A i \in 1..Len(bytes) : bytes[i] # BadByte

\* json.loads: an object (a later duplicate key wins), the empty list, or a
\* JSONDecodeError
IsJsonObject(text) ==
    /\ Len(text) >= 2
    /\ text[1] = LBrace
    /\ text[Len(text)] = RBrace
    /\ \A i \in 2..(Len(text) - 1) : text[i] \notin Punctuation

IsJsonList(text) == text = <<LBracket, RBracket>>

JsonKeys(text) == {text[i].k : i \in 2..(Len(text) - 1)}

JsonValue(text, k) ==
    LET is == {i \in 2..(Len(text) - 1) : text[i].k = k}
        last == CHOOSE i \in is : \A j \in is : j <= i
    IN text[last].v

json_loads(text) ==
    IF IsJsonObject(text)
    THEN [kind |-> "dict", obj |-> [k \in JsonKeys(text) |-> JsonValue(text, k)]]
    ELSE IF IsJsonList(text)
    THEN [kind |-> "list", obj |-> << >>]
    ELSE [kind |-> "JSONDecodeError", obj |-> << >>]

\* dict_get without the default: .get(k) gives None for an absent key
dict_get_None(obj, k) == IF k \in DOMAIN obj THEN obj[k] ELSE "None"

\* json_data.get(k, "")
dict_get(obj, k) == IF k \in DOMAIN obj THEN obj[k] ELSE ""

\* payloads a TCP peer other than the HTTP handler may send
RawPayloads ==
    { << >>,
      <<BadByte>>,
      <<LBracket, RBracket>>,
      <<LBrace, Tok("message", "hi"), RBrace>> }

\* ----------------------------------------------------------------- state
VARIABLES
    ipc,         \* socket_server: position in the function
    attempt,     \* socket_server: loop variable of the retry loop
    tries,       \* number of MongoClient/server_info attempts made so far
    slept,       \* total time spent in time.sleep(retry_delay)
    client,      \* socket_server: "None" or "MongoClient"
    alive,       \* a client.server_info() call has returned
    bound,       \* the listening socket is bound to SOCKET_PORT
    cur,         \* socket_server: client_socket (index into conns, 0: none)
    data,        \* socket_server: bytes received on client_socket so far
    document,    \* socket_server: the document built for collection.insert_one
    collection,  \* the MongoDB collection: documents in insertion order
    clock,       \* datetime.now()
    conns,       \* TCP connections made to SOCKET_PORT, in order of connect
    resp,        \* the request last handled by the HTTP handler and its response
    files,       \* the names of the files FRONT_DIR holds
    hsrv         \* main process: "serving" in http_server, or "failed"

vars == <<ipc, attempt, tries, slept, client, alive, bound, cur, data, document,
          collection, clock, conns, resp, files, hsrv>>

ingestVars == <<ipc, attempt, tries, slept, client, alive, bound, cur, data,
                document, collection, clock>>
startupVars == <<attempt, tries, slept, client, alive>>
loopVars == <<cur, data, document, collection, clock>>
httpVars == <<resp, files, hsrv>>

NoDocument == [date |-> 0, username |-> "", message |-> "", conn |-> 0]

\* the files the handler looks for in FRONT_DIR
StaticFiles == {"index.html", "message.html", "style.css", "logo.png", "error.html"}

\* A response body: the content of a file (named, for its bytes), a text the
\* handler writes, the page http.server builds for a status, or nothing.
Content(filename) == [kind |-> "file", of |-> filename]
Text(t) == [kind |-> "text", of |-> t]
ErrorPage(code) == [kind |-> "error page", of |-> code]
NoBody == [kind |-> "none", of |-> ""]

NoResponse ==
    [method |-> "", path |-> "", missing |-> FALSE, events |-> << >>,
     ctype |-> "", body |-> NoBody]

Init ==
    /\ ipc = "mongo"
    /\ attempt = 0
    /\ tries = 0
    /\ slept = 0
    /\ client = "None"
    /\ alive = FALSE
    /\ bound = FALSE
    /\ cur = 0
    /\ data = << >>
    /\ document = NoDocument
    /\ collection = << >>
    /\ clock = 1
    /\ conns = << >>
    /\ resp = NoResponse
    /\ files = StaticFiles
    /\ hsrv = "serving"

\* ------------------------------------------- socket_server: startup phase
\* MongoClient(...) and client.server_info() both return: break
MongoAttemptOk ==
    /\ ipc = "mongo"
    /\ tries' = tries + 1
    /\ client' = "MongoClient"
    /\ alive' = TRUE
    /\ ipc' = "bind"
    /\ UNCHANGED <<attempt, slept, bound, loopVars, conns, httpVars>>

\* AfterFailedAttempt without the return after the last attempt
AfterFailedAttempt_no_return(a) == IF a < max_retries - 1 THEN "sleep" ELSE "bind"

\* AfterFailedAttempt comparing with max_retries instead of max_retries - 1
AfterFailedAttempt_off_by_one(a) == IF a < max_retries THEN "sleep" ELSE "exited"

\* what follows a failed attempt: sleep and retry, or give up after the last
AfterFailedAttempt(a) == IF a < max_retries - 1 THEN "sleep" ELSE "exited"

\* MongoClient(...) raises (client keeps its value) or server_info() raises
\* (client is assigned, the server is not reachable)
MongoAttemptFail ==
    /\ ipc = "mongo"
    /\ tries' = tries + 1
    /\ \E c \in {client, "MongoClient"} : client' = c
    /\ ipc' = AfterFailedAttempt(attempt)
    /\ UNCHANGED <<attempt, slept, alive, bound, loopVars, conns, httpVars>>

\* time.sleep(retry_delay), then the next iteration of the for loop
RetrySleep ==
    /\ ipc = "sleep"
    /\ slept' = slept + retry_delay
    /\ attempt' = attempt + 1
    /\ ipc' = "mongo"
    /\ UNCHANGED <<tries, client, alive, bound, loopVars, conns, httpVars>>

\* if client is None: return; else create, bind and listen on the server socket.
\* Nothing reads the retry loop's variable and counters past this point: they
\* are cleared when the accept loop is entered.
BindListen ==
    /\ ipc = "bind"
    /\ IF client = "None"
       THEN /\ ipc' = "exited"
            /\ bound' = bound
            /\ UNCHANGED <<attempt, tries, slept>>
       ELSE /\ ipc' = "accept"
            /\ bound' = TRUE
            /\ attempt' = 0
            /\ tries' = 0
            /\ slept' = 0
    /\ UNCHANGED <<client, alive, loopVars, conns, httpVars>>

\* server_socket.bind raises (the port is taken): the exception leaves
\* socket_server and the process ends
BindFail ==
    /\ ipc = "bind"
    /\ client # "None"
    /\ ipc' = "crashed"
    /\ UNCHANGED <<startupVars, bound, loopVars, conns, httpVars>>

\* ---------------------------------------------- socket_server: accept loop
Backlog == {c \in 1..Len(conns) : conns[c].st = "backlog"}

\* the number of times server_socket.accept() has returned
Accepted == Cardinality({c \in 1..Len(conns) : conns[c].st # "backlog"})

\* Accept as a server with one thread per connection would do it: also while
\* the previous connection is still being read
Accept_while_reading ==
    /\ ipc \in {"accept", "recv"}
    /\ Backlog # {}
    /\ LET c == CHOOSE x \in Backlog : \A y \in Backlog : x <= y
       IN /\ cur' = c
          /\ conns' = [conns EXCEPT ![c].st = "accepted",
                                    ![c].acc = Accepted + 1]
    /\ data' = << >>
    /\ ipc' = "recv"
    /\ UNCHANGED <<startupVars, bound, document, collection, clock, httpVars>>

\* server_socket.accept() returns the oldest queued connection; data = b""
Accept ==
    /\ ipc = "accept"
    /\ Backlog # {}
    /\ LET c == CHOOSE x \in Backlog : \A y \in Backlog : x <= y
       IN /\ cur' = c
          /\ conns' = [conns EXCEPT ![c].st = "accepted",
                                    ![c].acc = Accepted + 1]
    /\ data' = << >>
    /\ ipc' = "recv"
    /\ UNCHANGED <<startupVars, bound, document, collection, clock, httpVars>>

\* client_socket.recv(1024) returns a non-empty chunk: data += chunk
RecvChunk ==
    /\ ipc = "recv"
    /\ conns[cur].wire # << >>
    /\ \E n \in 1..Len(conns[cur].wire) :
          /\ data' = data \o Prefix(conns[cur].wire, n)
          /\ conns' = [conns EXCEPT ![cur].wire = Suffix(conns[cur].wire, n)]
    /\ UNCHANGED <<ipc, startupVars, bound, cur, document, collection, clock,
                   httpVars>>

\* RecvEof with a read timeout: the server stops waiting for a silent peer
RecvEof_timeout ==
    /\ ipc = "recv"
    /\ conns[cur].wire = << >>
    /\ ipc' = "parse"
    /\ UNCHANGED <<startupVars, bound, loopVars, conns, httpVars>>

\* client_socket.recv(1024) returns b"" (the peer closed its write side): break
RecvEof ==
    /\ ipc = "recv"
    /\ conns[cur].wire = << >>
    /\ conns[cur].peerClosed
    /\ ipc' = "parse"
    /\ UNCHANGED <<startupVars, bound, loopVars, conns, httpVars>>

\* RecvError without the outer try/except: the exception ends socket_server
RecvError_uncaught ==
    /\ ipc = "recv"
    /\ conns' = [conns EXCEPT ![cur].st = "reset", ![cur].outcome = "read_error",
                              ![cur].wire = << >>]
    /\ ipc' = "crashed"
    /\ UNCHANGED <<startupVars, bound, loopVars, httpVars>>

\* client_socket.recv raises (the peer reset the connection, what it had sent
\* and was not read is gone): the outer except prints and the loop goes on;
\* client_socket.close() is skipped
RecvError ==
    /\ ipc = "recv"
    /\ conns' = [conns EXCEPT ![cur].st = "reset", ![cur].outcome = "read_error",
                              ![cur].wire = << >>]
    /\ ipc' = "accept"
    /\ cur' = 0
    /\ data' = << >>
    /\ document' = NoDocument
    /\ UNCHANGED <<startupVars, bound, collection, clock, httpVars>>

\* ParseResult with every payload taken as a JSON object
ParseResult_accept_all(d) == "ok"

\* json.loads(data.decode("utf-8")), the two .get calls and the document
ParseResult(d) ==
    IF ~DecodeOk(d) THEN "UnicodeDecodeError"
    ELSE IF json_loads(d).kind = "JSONDecodeError" THEN "JSONDecodeError"
    ELSE IF json_loads(d).kind # "dict" THEN "AttributeError"
    ELSE "ok"

MakeDocument(d, now, c) ==
    [date |-> now,
     username |-> dict_get(json_loads(d).obj, "username"),
     message |-> dict_get(json_loads(d).obj, "message"),
     conn |-> c]

Parse ==
    /\ ipc = "parse"
    /\ IF ParseResult(data) = "ok"
       THEN /\ document' = MakeDocument(data, clock, cur)
            /\ clock' = clock + 1
            /\ ipc' = "insert"
            /\ conns' = conns
       ELSE /\ conns' = [conns EXCEPT ![cur].outcome = ParseResult(data)]
            /\ ipc' = "close"
            /\ UNCHANGED <<document, clock>>
    /\ UNCHANGED <<startupVars, bound, cur, data, collection, httpVars>>

\* InsertOk as an upsert: the document replaces the newest record
InsertOk_replace ==
    /\ ipc = "insert"
    /\ collection' = IF collection = << >>
                     THEN <<document>>
                     ELSE [collection EXCEPT ![Len(collection)] = document]
    /\ conns' = [conns EXCEPT ![cur].outcome = "inserted",
                              ![cur].inserts = conns[cur].inserts + 1]
    /\ ipc' = "close"
    /\ UNCHANGED <<startupVars, bound, cur, data, document, clock, httpVars>>

\* InsertOk putting the document in front of the records there are
InsertOk_prepend ==
    /\ ipc = "insert"
    /\ collection' = <<document>> \o collection
    /\ conns' = [conns EXCEPT ![cur].outcome = "inserted",
                              ![cur].inserts = conns[cur].inserts + 1]
    /\ ipc' = "close"
    /\ UNCHANGED <<startupVars, bound, cur, data, document, clock, httpVars>>

\* collection.insert_one(document) returns
InsertOk ==
    /\ ipc = "insert"
    /\ collection' = Append(collection, document)
    /\ conns' = [conns EXCEPT ![cur].outcome = "inserted",
                              ![cur].inserts = conns[cur].inserts + 1]
    /\ ipc' = "close"
    /\ UNCHANGED <<startupVars, bound, cur, data, document, clock, httpVars>>

\* InsertFail with a retry of insert_one
InsertFail_retry ==
    /\ ipc = "insert"
    /\ conns' = [conns EXCEPT ![cur].inserts = conns[cur].inserts + 1]
    /\ UNCHANGED <<ipc, startupVars, bound, loopVars, httpVars>>

\* collection.insert_one(document) raises: except Exception prints
InsertFail ==
    /\ ipc = "insert"
    /\ conns' = [conns EXCEPT ![cur].outcome = "insert_failed",
                              ![cur].inserts = conns[cur].inserts + 1]
    /\ ipc' = "close"
    /\ UNCHANGED <<startupVars, bound, loopVars, httpVars>>

\* client_socket.close(), back to the top of while True.  client_socket, data
\* and document are assigned again before they are next read: they are
\* cleared when an iteration ends.
CloseClient ==
    /\ ipc = "close"
    /\ conns' = [conns EXCEPT ![cur].st = "closed"]
    /\ ipc' = "accept"
    /\ cur' = 0
    /\ data' = << >>
    /\ document' = NoDocument
    /\ UNCHANGED <<startupVars, bound, collection, clock, httpVars>>

\* ------------------------------------------------------ HTTPRequestHandler
\* The request paths looked at: the five routes of do_GET, the route of
\* do_POST, the one other file of FRONT_DIR and a path that names nothing.
\* urlparse(self.path).path is the request target without its query; a request
\* is given here by that path.
Paths ==
    {"/", "/index.html", "/message.html", "/style.css", "/logo.png",
     "/error.html", "/message", "/nonexistent"}
PostPaths == {"/message", "/other"}

\* send_response(status), send_header("Content-type", ctype), end_headers(),
\* wfile.write(body)
Reply(status, ctype, body) ==
    [events |-> <<status>>, ctype |-> ctype, body |-> body]

\* what is kept of a handled request
Response(method, path, missing, r) ==
    [method |-> method, path |-> path, missing |-> missing,
     events |-> r.events, ctype |-> r.ctype, body |-> r.body]

\* super().send_error(code, message): BaseHTTPRequestHandler's page for the
\* status, which it does not write in answer to HEAD
super_send_error(command, code) ==
    Reply(code, "text/html;charset=utf-8",
          IF command = "HEAD" THEN NoBody ELSE ErrorPage(code))

\* send_error without the override: always the page of http.server
send_error_generic(command, code) == super_send_error(command, code)

\* send_error: error.html for a 404 when FRONT_DIR has it
send_error(command, code) ==
    IF code = "404"
    THEN IF "error.html" \in files
         THEN Reply("404", "text/html", Content("error.html"))
         ELSE super_send_error(command, code)
    ELSE super_send_error(command, code)

\* serve_file without the os.path.exists test
serve_file_unchecked(command, filename, content_type) ==
    Reply("200", content_type, Content(filename))

\* serve_file: the file's bytes when FRONT_DIR has the file, send_error(404)
\* when it has not
serve_file(command, filename, content_type) ==
    IF filename \in files
    THEN Reply("200", content_type, Content(filename))
    ELSE send_error(command, "404")

\* do_GET, from the request to the written response
do_GET(path) ==
    /\ hsrv = "serving"
    /\ resp' = Response("GET", path, FALSE,
                 IF path = "/" \/ path = "/index.html"
                 THEN serve_file("GET", "index.html", "text/html")
                 ELSE IF path = "/message.html"
                 THEN serve_file("GET", "message.html", "text/html")
                 ELSE IF path = "/style.css"
                 THEN serve_file("GET", "style.css", "text/css")
                 ELSE IF path = "/logo.png"
                 THEN serve_file("GET", "logo.png", "image/png")
                 ELSE send_error("GET", "404"))
    /\ UNCHANGED <<ingestVars, conns, files, hsrv>>

\* SimpleHTTPRequestHandler.translate_path: the file of FRONT_DIR a path names
\* ("" for the directory itself, "?" for a name FRONT_DIR cannot hold)
translate_path(path) ==
    CASE path = "/" -> ""
      [] path = "/index.html" -> "index.html"
      [] path = "/message.html" -> "message.html"
      [] path = "/style.css" -> "style.css"
      [] path = "/logo.png" -> "logo.png"
      [] path = "/error.html" -> "error.html"
      [] OTHER -> "?"

\* SimpleHTTPRequestHandler.guess_type
guess_type(filename) ==
    CASE filename = "style.css" -> "text/css"
      [] filename = "logo.png" -> "image/png"
      [] OTHER -> "text/html"

\* do_HEAD is not overridden: SimpleHTTPRequestHandler.do_HEAD sends the
\* headers of the file the path names in FRONT_DIR (of index.html or of a
\* listing for the directory) and send_error(404) when there is none
do_HEAD(path) ==
    /\ hsrv = "serving"
    /\ resp' = Response("HEAD", path, FALSE,
                 LET f == translate_path(path)
                 IN IF f = ""
                    THEN Reply("200", "text/html", NoBody)
                    ELSE IF f \in files
                    THEN Reply("200", guess_type(f), NoBody)
                    ELSE send_error("HEAD", "404"))
    /\ UNCHANGED <<ingestVars, conns, files, hsrv>>

\* the methods the class has no do_ method for:
\* BaseHTTPRequestHandler.handle_one_request calls send_error(501)
UnsupportedMethods == {"PUT", "DELETE"}

do_unsupported(command, path) ==
    /\ hsrv = "serving"
    /\ resp' = Response(command, path, FALSE, send_error(command, "501"))
    /\ UNCHANGED <<ingestVars, conns, files, hsrv>>

\* A connection: src, username, message and sent record who made it and what
\* the HTTP handler submitted on it (sent: sendall returned); wire holds what
\* was written and is not yet read; st is "backlog" (connected, not accepted),
\* "accepted", "closed" (client_socket.close() was called) or "reset"; acc is
\* its place in the order of accepts (0: not accepted); outcome and inserts
\* record what socket_server did with it.
NewConn(src, username, message, sent, wire, closed) ==
    [src |-> src, username |-> username, message |-> message, sent |-> sent,
     wire |-> wire, peerClosed |-> closed, st |-> "backlog", outcome |-> "none",
     inserts |-> 0, acc |-> 0]

\* What the network does to one send_to_socket_server call: whether connect
\* returns, and how many tokens sendall passes on before it returns or raises.
NetOutcomes ==
    {[connect |-> FALSE, sent |-> 0]} \cup
    {[connect |-> TRUE, sent |-> n] : n \in 0..Len(json_dumps("", ""))}

\* send_to_socket_server without try/finally: sock.close() is reached only
\* when connect and sendall return
send_to_socket_server_no_finally(username, message, net) ==
    LET json_data == json_dumps(username, message)
        sendOk == net.sent = Len(json_data)
    IN IF ~net.connect
       THEN [conns |-> conns,
             events |-> <<"socket", "connect!">>,
             raised |-> TRUE]
       ELSE [conns |-> Append(conns, NewConn("http", username, message, sendOk,
                                             Prefix(json_data, net.sent), sendOk)),
             events |-> IF sendOk
                        THEN <<"socket", "connect", "sendall", "close">>
                        ELSE <<"socket", "connect", "sendall!">>,
             raised |-> ~sendOk]

\* send_to_socket_server: socket() (taken to succeed), connect, sendall, and
\* close in the finally clause.  Gives the connections afterwards, the calls made in order ("!"
\* marks the one that raised) and whether an exception leaves the function.
send_to_socket_server(username, message, net) ==
    LET json_data == json_dumps(username, message)
        sendOk == net.sent = Len(json_data)
    IN IF ~net.connect
       THEN [conns |-> conns,
             events |-> <<"socket", "connect!", "close">>,
             raised |-> TRUE]
       ELSE [conns |-> Append(conns, NewConn("http", username, message, sendOk,
                                             Prefix(json_data, net.sent), TRUE)),
             events |-> <<"socket", "connect",
                          IF sendOk THEN "sendall" ELSE "sendall!", "close">>,
             raised |-> ~sendOk]

\* FieldsPresent with "or" for "and"
FieldsPresent_either(username, message) == username # "" \/ message # ""

\* if username and message
FieldsPresent(username, message) == username # "" /\ message # ""

\* PostStatus without the except clause's 500
PostStatus_always200(raised) == "200"

\* send_response(200) after a normal return, send_response(500) in the handler
\* of the exception
PostStatus(raised) == IF raised THEN "500" ELSE "200"

\* do_POST, from the request to the written response
do_POST(path, body, net) ==
    /\ hsrv = "serving"
    /\ net.connect => (bound /\ Len(conns) < MaxConn)
    /\ IF path # "/message"
       THEN /\ resp' = Response("POST", path, FALSE, send_error("POST", "404"))
            /\ conns' = conns
       ELSE LET username == form_get(parse_qs(body), "username")
                message == form_get(parse_qs(body), "message")
                missing == username = "" \/ message = ""
            IN IF FieldsPresent(username, message)
               THEN LET r == send_to_socket_server(username, message, net)
                        status == PostStatus(r.raised)
                    IN /\ conns' = r.conns
                       /\ resp' = Response("POST", path, missing,
                                     [events |-> Append(r.events, status),
                                      ctype |-> "text/html",
                                      body |-> IF status = "200"
                                               THEN Text("Message sent successfully!")
                                               ELSE Text("Error: str(e)")])
               ELSE /\ resp' = Response("POST", path, missing,
                                  Reply("400", "text/html",
                                        Text("Username and message are required")))
                    /\ conns' = conns
    /\ UNCHANGED <<ingestVars, files, hsrv>>

NoNet == [connect |-> FALSE, sent |-> 0]

\* the requests a client may make
HttpPostMessage ==
    \E body \in FormBodies :
        LET username == form_get(parse_qs(body), "username")
            message == form_get(parse_qs(body), "message")
        IN \E net \in (IF username # "" /\ message # "" THEN NetOutcomes ELSE {NoNet}) :
               do_POST("/message", body, net)

HttpPostOther ==
    \E path \in PostPaths \ {"/message"} : do_POST(path, << >>, NoNet)

HttpGet == \E path \in Paths : do_GET(path)

HttpHead == \E path \in Paths : do_HEAD(path)

HttpUnsupported ==
    \E command \in UnsupportedMethods : \E path \in Paths :
        do_unsupported(command, path)

\* ------------------------------------------------------- other TCP peers
\* a peer connects to SOCKET_PORT and writes a payload
RawConnect(payload) ==
    /\ bound
    /\ Len(conns) < MaxConn
    /\ conns' = Append(conns, NewConn("raw", "", "", FALSE, payload, FALSE))
    /\ UNCHANGED <<ingestVars, httpVars>>

\* a peer closes its write side
RawClose(c) ==
    /\ conns[c].src = "raw"
    /\ conns[c].st # "reset"
    /\ ~conns[c].peerClosed
    /\ conns' = [conns EXCEPT ![c].peerClosed = TRUE]
    /\ UNCHANGED <<ingestVars, httpVars>>

\* ---------------------------------------------------------- specification
IngestStep ==
    \/ MongoAttemptOk
    \/ MongoAttemptFail
    \/ RetrySleep
    \/ BindListen
    \/ BindFail
    \/ Accept
    \/ RecvChunk
    \/ RecvEof
    \/ RecvError
    \/ Parse
    \/ InsertOk
    \/ InsertFail
    \/ CloseClient

HttpStep ==
    \/ HttpPostMessage
    \/ HttpPostOther

PeerStep ==
    \/ \E payload \in RawPayloads : RawConnect(payload)
    \/ \E c \in 1..Len(conns) : RawClose(c)

Next == IngestStep \/ HttpStep \/ PeerStep

Spec == Init /\ [][Next]_vars

\* socket_server is one sequential process: it takes its next step unless it is
\* blocked in accept or recv.  No failure of the network is ever forced.
IngestRuns ==
    \/ MongoAttemptOk
    \/ MongoAttemptFail
    \/ RetrySleep
    \/ BindListen
    \/ BindFail
    \/ Accept
    \/ RecvChunk
    \/ RecvEof
    \/ Parse
    \/ InsertOk
    \/ InsertFail
    \/ CloseClient

FairSpec == Spec /\ WF_vars(IngestRuns)

\* Request routing: FRONT_DIR holds any of its files and requests of every
\* method and path come in, as from the start of main (the ingest server is
\* not listening yet: a submission finds its connect refused).
HttpInit ==
    /\ ipc = "mongo"
    /\ attempt = 0
    /\ tries = 0
    /\ slept = 0
    /\ client = "None"
    /\ alive = FALSE
    /\ bound = FALSE
    /\ cur = 0
    /\ data = << >>
    /\ document = NoDocument
    /\ collection = << >>
    /\ clock = 1
    /\ conns = << >>
    /\ resp = NoResponse
    /\ files \in SUBSET StaticFiles
    /\ hsrv = "serving"

HttpNext ==
    \/ HttpGet
    \/ HttpHead
    \/ HttpUnsupported
    \/ HttpPostMessage
    \/ HttpPostOther

HttpSpec == HttpInit /\ [][HttpNext]_vars

\* http_server ends: TCPServer cannot bind HTTP_PORT, or serve_forever raises
\* (KeyboardInterrupt).  The exception leaves main; the exiting main process
\* terminates its daemonic child (socket_process.daemon = True), whose
\* listening socket and local variables go with it.
HttpServerFail ==
    /\ hsrv = "serving"
    /\ hsrv' = "failed"
    /\ ipc' = IF ipc \in {"exited", "crashed"} THEN ipc ELSE "terminated"
    /\ bound' = FALSE
    /\ attempt' = 0
    /\ tries' = 0
    /\ slept' = 0
    /\ client' = "None"
    /\ alive' = FALSE
    /\ cur' = 0
    /\ data' = << >>
    /\ document' = NoDocument
    /\ UNCHANGED <<collection, clock, conns, resp, files>>

\* Spec with the runs in which the main process ends
ProcNext == Next \/ HttpServerFail

ProcSpec == Init /\ [][ProcNext]_vars

\* ------------------------------------------------------------ properties
StatusCodes == {"200", "400", "404", "500", "501"}
IsStatus(e) == e \in StatusCodes
Statuses(events) == SelectSeq(events, IsStatus)
Has(events, e) == \E i \in 1..Len(events) : events[i] = e
Conns == 1..Len(conns)
HttpConns == {c \in Conns : conns[c].src = "http"}
RecordsOf(c) == {i \in 1..Len(collection) : collection[i].conn = c}
Matches(doc, c) ==
    doc.username = conns[c].username /\ doc.message = conns[c].message
ValidPost ==
    /\ resp.method = "POST"
    /\ resp.path = "/message"
    /\ ~resp.missing
    /\ resp.events # << >>
LoopPcs == {"accept", "recv", "parse", "insert", "close"}

\* C1 as stated, read with "when the ingest server is reachable" covering both
\* halves: a POST /message with both fields whose connect and send succeeded
\* is answered 200, and once the ingest server has closed that connection the
\* collection holds exactly one record for it, with the submitted values.
C1_AsStated ==
    /\ (ValidPost /\ Has(resp.events, "sendall")) => Statuses(resp.events) = <<"200">>
    /\ \A c \in HttpConns :
          (conns[c].sent /\ conns[c].st = "closed") =>
              /\ Cardinality(RecordsOf(c)) = 1
              /\ \A i \in RecordsOf(c) : Matches(collection[i], c)

\* C1 (amended): a POST /message with both fields non-empty is answered 200
\* when connect and send succeed and 500 otherwise.  At most one record is ever
\* inserted for the request and it carries the submitted username and message;
\* once the ingest server has closed the connection of a request answered 200,
\* the collection holds exactly one such record if the insert succeeded and
\* none if it failed; a request answered 500 never gets a record.
C1_Delivery ==
    /\ ValidPost =>
          Statuses(resp.events) =
              IF Has(resp.events, "sendall") THEN <<"200">> ELSE <<"500">>
    /\ \A c \in HttpConns :
          /\ Cardinality(RecordsOf(c)) <= 1
          /\ \A i \in RecordsOf(c) : Matches(collection[i], c)
          /\ ~conns[c].sent => RecordsOf(c) = {}
          /\ (conns[c].sent /\ conns[c].st = "closed") =>
                /\ conns[c].outcome \in {"inserted", "insert_failed"}
                /\ Cardinality(RecordsOf(c)) =
                       IF conns[c].outcome = "inserted" THEN 1 ELSE 0

C1_Witness ==
    \E c \in HttpConns :
        /\ conns[c].sent
        /\ conns[c].st = "closed"
        /\ conns[c].username = "alice"
        /\ \E i \in RecordsOf(c) : Matches(collection[i], c)

\* C2: a POST /message with username or message missing or empty is answered
\* 400 and the handler makes no socket call for it: every connection the HTTP
\* handler ever made carries a non-empty username and a non-empty message, and
\* every record of the collection came over a connection.
C2_MissingField ==
    /\ (resp.path = "/message" /\ resp.missing) => resp.events = <<"400">>
    /\ \A c \in HttpConns : conns[c].username # "" /\ conns[c].message # ""
    /\ \A i \in 1..Len(collection) : collection[i].conn \in Conns

C2_Witness ==
    /\ resp.path = "/message"
    /\ resp.missing
    /\ resp.events = <<"400">>
    /\ bound
    /\ Len(conns) < MaxConn

\* C3: a POST /message with both fields non-empty gets exactly one status; it
\* is 500 if and only if connect or sendall raised, and 200 otherwise.
C3_Status ==
    ValidPost =>
        /\ Len(Statuses(resp.events)) = 1
        /\ Statuses(resp.events)[1] \in {"200", "500"}
        /\ Statuses(resp.events) = <<"500">> <=>
               (Has(resp.events, "connect!") \/ Has(resp.events, "sendall!"))

C3_Witness ==
    /\ ValidPost
    /\ Has(resp.events, "sendall!")
    /\ Statuses(resp.events) = <<"500">>

\* the payload read is not UTF-8, or is not a JSON text
ParseFails(d) == ~DecodeOk(d) \/ (~IsJsonObject(d) /\ ~IsJsonList(d))
ParseErrors == {"JSONDecodeError", "UnicodeDecodeError"}

\* C4: when the payload read from a connection does not parse as UTF-8 JSON,
\* the server's next step goes to the close of that connection and inserts
\* nothing, no record of that connection is ever in the collection, and the
\* server gets back to accept, where it can take a waiting connection.
C4_ParseFailure ==
    /\ [][(ipc = "parse" /\ ParseFails(data) /\ ipc' # ipc) =>
              /\ ipc' = "close"
              /\ collection' = collection
              /\ conns'[cur].outcome \in ParseErrors]_vars
    /\ [](\A c \in Conns : conns[c].outcome \in ParseErrors =>
              (RecordsOf(c) = {} /\ conns[c].inserts = 0))
    /\ [](ipc = "accept" /\ Backlog # {} => ENABLED Accept)
    /\ (ipc = "parse" /\ ParseFails(data)) ~> (ipc = "accept")

C4_Witness ==
    /\ ipc = "accept"
    /\ \E c \in Conns : conns[c].outcome = "UnicodeDecodeError" /\ conns[c].st = "closed"
    /\ \E c \in Conns : conns[c].outcome = "JSONDecodeError" /\ conns[c].st = "closed"

\* C5: the listening socket is bound, and the accept loop runs, only after a
\* server_info() call has succeeded; a server that exits after its last failed
\* attempt has never bound the socket and never binds it.
C5_BindAfterPing ==
    /\ bound => alive
    /\ ipc \in LoopPcs => bound
    /\ ipc = "exited" => (~bound /\ ~alive /\ tries = max_retries)

C5_Witness == bound /\ alive /\ ipc = "insert"

\* C6: the startup phase ends: there are never more than max_retries attempts,
\* retry_delay is waited once after each failed attempt but the last, no
\* attempt follows a successful one, the server is in its terminal failed
\* state exactly after max_retries failures, and every run leaves the retry
\* loop.
C6_Startup ==
    /\ [](tries <= max_retries)
    /\ [](ipc = "mongo" =>
              (tries = attempt /\ slept = attempt * retry_delay /\ ~alive))
    /\ [](ipc = "sleep" =>
              /\ tries = attempt + 1
              /\ slept = attempt * retry_delay
              /\ attempt < max_retries - 1
              /\ ~alive)
    /\ [](ipc = "bind" => (alive /\ slept = (tries - 1) * retry_delay))
    /\ [](ipc = "exited" =>
              /\ tries = max_retries
              /\ slept = (max_retries - 1) * retry_delay
              /\ ~alive)
    /\ [][alive => (tries' <= tries /\ slept' <= slept)]_vars
    /\ [][ipc = "exited" => ipc' = "exited"]_vars
    /\ <>(ipc \notin {"mongo", "sleep"})

C6_Witness ==
    /\ ipc = "exited"
    /\ tries = max_retries
    /\ slept = (max_retries - 1) * retry_delay

\* C7: once in the accept loop the server never leaves it, whatever fails while
\* a connection is handled, and after a failed read, a failed parse or a failed
\* insert it is at accept again.
C7_LoopSurvives ==
    /\ [][(ipc \in LoopPcs) => (ipc' \in LoopPcs)]_vars
    /\ [][(ipc = "recv" /\ \E c \in Conns : conns[c].outcome # "read_error"
                                          /\ conns'[c].outcome = "read_error") =>
              ipc' = "accept"]_vars
    /\ (ipc = "close") ~> (ipc = "accept")
    /\ (ipc = "parse") ~> (ipc = "accept")
    /\ (ipc = "insert") ~> (ipc = "accept")

C7_Witness ==
    /\ ipc = "accept"
    /\ \E c \in Conns : conns[c].outcome = "read_error"
    /\ \E c \in Conns : conns[c].outcome = "insert_failed"

\* C8 as stated: whenever the server is at accept, every connection it accepted
\* before has been closed by it.
C8_ClosedBeforeNextAccept ==
    ipc = "accept" => \A c \in Conns : conns[c].st \in {"backlog", "closed"}

\* C9: insert_one is called at most once per connection; a connection whose
\* insert failed has no record in the collection, and nothing is done for it
\* afterwards.
C9_NoRetry ==
    /\ [](\A c \in Conns :
              /\ conns[c].inserts <= 1
              /\ Cardinality(RecordsOf(c)) <= conns[c].inserts
              /\ conns[c].outcome = "insert_failed" => RecordsOf(c) = {})
    /\ [][\A c \in Conns : conns[c].outcome = "insert_failed" =>
              /\ conns'[c].outcome = "insert_failed"
              /\ conns'[c].inserts = conns[c].inserts
              /\ (ipc' # ipc => ipc' \in {"close", "accept"} \/ cur' # c)]_vars

C9_Witness ==
    /\ ipc = "close"
    /\ Len(collection) = 1
    /\ \E c \in Conns : /\ conns[c].outcome = "insert_failed"
                        /\ conns[c].st = "closed"
                        /\ c # cur

\* C10: at most one connection is accepted and not yet done with; it is the
\* one the server is reading, parsing or inserting; and a connection is
\* accepted only when there is none.
Handling == {c \in Conns : conns[c].st = "accepted"}

C10_Serial ==
    /\ [](Cardinality(Handling) <= 1)
    /\ [](ipc \in {"recv", "parse", "insert", "close"} <=> Handling = {cur})
    /\ [](ipc \notin {"recv", "parse", "insert", "close"} => Handling = {})
    /\ [][(\E c \in Conns : conns[c].st = "backlog" /\ conns'[c].st = "accepted") =>
              (ipc = "accept" /\ Handling = {})]_vars

C10_Witness ==
    /\ ipc = "parse"
    /\ Handling = {2}
    /\ conns[1].st = "closed"


\* C11: while the peer of the connection being read has not closed its write
\* side (and has not reset the connection), the server stays in its recv loop
\* on that connection: it accepts no other connection and inserts nothing,
\* whatever connects or is sent meanwhile.
C11_StalledPeer ==
    [][(/\ ipc = "recv"
        /\ ~conns[cur].peerClosed
        /\ conns'[cur].outcome # "read_error") =>
           /\ ipc' = "recv"
           /\ cur' = cur
           /\ collection' = collection
           /\ \A c \in Conns : conns[c].st = "backlog" => conns'[c].st = "backlog"]_vars

\* a later HTTP submission was answered 200 and waits behind a silent peer
C11_Witness ==
    /\ ipc = "recv"
    /\ cur = 1
    /\ conns[1].src = "raw"
    /\ ~conns[1].peerClosed
    /\ conns[1].wire = << >>
    /\ Len(conns) = 2
    /\ conns[2].src = "http"
    /\ conns[2].sent
    /\ conns[2].st = "backlog"
    /\ collection = << >>

\* C12 as stated: the two servers fail independently.  A step in which the
\* ingest server ends (it exits after its last failed attempt, or its bind
\* raises) leaves the HTTP server serving, and a step in which the HTTP
\* server fails leaves an ingest server that is in its accept loop where it
\* was.
C12_Independent ==
    [][/\ (ipc' # ipc /\ ipc' \in {"exited", "crashed"}) => hsrv' = "serving"
       /\ (hsrv = "serving" /\ hsrv' = "failed" /\ ipc \in LoopPcs) => ipc' = ipc]_vars

\* the five routes of the spec's interface and the file each one names
GetRoutes == {"/", "/index.html", "/message.html", "/style.css", "/logo.png"}
RouteFile(path) ==
    CASE path = "/" -> "index.html"
      [] path = "/index.html" -> "index.html"
      [] path = "/message.html" -> "message.html"
      [] path = "/style.css" -> "style.css"
      [] path = "/logo.png" -> "logo.png"
IsGet == resp.method = "GET" /\ resp.events # << >>

\* C13 as stated: a GET of one of the five routes is answered 200 with the
\* content of the route's file, and a GET of any other path is answered 404.
C13_AsStated ==
    IsGet =>
        IF resp.path \in GetRoutes
        THEN /\ Statuses(resp.events) = <<"200">>
             /\ resp.body = Content(RouteFile(resp.path))
        ELSE Statuses(resp.events) = <<"404">>

\* C13 (amended): a GET of one of the five routes is answered 200 with the
\* content of the route's file when the static directory holds that file, and
\* 404 when it does not; a GET of any other path is answered 404.
C13_Routes ==
    IsGet =>
        IF resp.path \in GetRoutes /\ RouteFile(resp.path) \in files
        THEN /\ Statuses(resp.events) = <<"200">>
             /\ resp.body = Content(RouteFile(resp.path))
        ELSE Statuses(resp.events) = <<"404">>

\* a route whose file is missing was asked for, next to one that is there
C13_Witness ==
    /\ IsGet
    /\ resp.path = "/style.css"
    /\ "style.css" \notin files
    /\ "index.html" \in files
    /\ Statuses(resp.events) = <<"404">>

\* the (method, path) pairs the spec's interface defines
DefinedRoute(method, path) ==
    \/ method = "GET" /\ path \in GetRoutes
    \/ method = "POST" /\ path = "/message"

\* C14 as stated: every request that is not one of the five GET routes or
\* POST /message is answered 404, whatever its method and path.
C14_OtherRequests ==
    (resp.events # << >> /\ ~DefinedRoute(resp.method, resp.path)) =>
        Statuses(resp.events) = <<"404">>

\* C17: a 404 answer to a GET or a POST (unknown path, or a route whose file
\* is missing) has the content of error.html as its body when the static
\* directory holds error.html, and the server's generic page for 404 when it
\* does not.
C17_NotFoundBody ==
    (resp.method \in {"GET", "POST"} /\ Statuses(resp.events) = <<"404">>) =>
        resp.body = IF "error.html" \in files
                    THEN Content("error.html")
                    ELSE ErrorPage("404")

\* a route whose file is missing was answered with error.html
C17_Witness ==
    /\ IsGet
    /\ resp.path = "/index.html"
    /\ "index.html" \notin files
    /\ "error.html" \in files
    /\ Statuses(resp.events) = <<"404">>
    /\ resp.body = Content("error.html")

\* C15: records are never changed or removed: every step leaves the collection
\* as it is or adds exactly one record after the ones there are, which keep
\* their date, username and message.
C15_AppendOnly ==
    [][\/ collection' = collection
       \/ /\ Len(collection') = Len(collection) + 1
          /\ \A i \in 1..Len(collection) : collection'[i] = collection[i]]_vars

\* a second record was added after the first
C15_Witness ==
    /\ Len(collection) = 2
    /\ collection[1].conn = 1
    /\ collection[2].conn = 2
    /\ ipc = "close"

\* the value of field k of a JSON object text, "" when the object has no k
FieldOf(text, k) == IF k \in JsonKeys(text) THEN JsonValue(text, k) ELSE ""
IsJson(text) == DecodeOk(text) /\ (IsJsonObject(text) \/ IsJsonList(text))

\* C16 as stated: when the server comes to close a connection whose payload
\* parsed as JSON, the collection holds exactly one record for it, with the
\* payload's username and message ("" for an absent field).
C16_AsStated ==
    (ipc = "close" /\ IsJson(data)) =>
        /\ Cardinality(RecordsOf(cur)) = 1
        /\ \A i \in RecordsOf(cur) :
              /\ collection[i].username = FieldOf(data, "username")
              /\ collection[i].message = FieldOf(data, "message")

\* C16 (amended): for a payload that parses as a JSON object the server calls
\* insert_one exactly once, with a record of a date taken then and the
\* payload's username and message ("" for an absent field, empty values are
\* not refused); the collection holds that one record when the insert
\* succeeded and none when it failed.  For JSON that is not an object nothing
\* is inserted.
C16_ObjectPayload ==
    /\ (ipc \in {"insert", "close"} /\ DecodeOk(data) /\ IsJsonObject(data)) =>
          /\ document.username = FieldOf(data, "username")
          /\ document.message = FieldOf(data, "message")
          /\ document.date \in 1..(clock - 1)
          /\ document.conn = cur
    /\ (ipc = "close" /\ DecodeOk(data) /\ IsJsonObject(data)) =>
          /\ conns[cur].inserts = 1
          /\ conns[cur].outcome \in {"inserted", "insert_failed"}
          /\ Cardinality(RecordsOf(cur)) =
                 IF conns[cur].outcome = "inserted" THEN 1 ELSE 0
          /\ \A i \in RecordsOf(cur) : collection[i] = document
    /\ (ipc = "close" /\ DecodeOk(data) /\ ~IsJsonObject(data)) =>
          /\ conns[cur].inserts = 0
          /\ RecordsOf(cur) = {}

\* a payload without a username was inserted with username ""
C16_Witness ==
    /\ ipc = "close"
    /\ data = <<LBrace, Tok("message", "hi"), RBrace>>
    /\ conns[cur].outcome = "inserted"
    /\ \E i \in RecordsOf(cur) :
          collection[i].username = "" /\ collection[i].message = "hi"

\* the places of the calls named in es among the calls of a request
Places(events, es) == {i \in 1..Len(events) : events[i] \in es}

\* C18: a POST /message with both fields creates exactly one socket and makes
\* exactly one connect on it; the socket is closed exactly once, after the
\* connect and the send and before the status line is written, whether connect
\* and sendall returned or raised.  No step adds more than one connection, and
\* no connection of the handler is left open at its end.
C18_OneSocketClosed ==
    /\ [](ValidPost =>
             /\ Places(resp.events, {"socket"}) = {1}
             /\ Places(resp.events, {"connect", "connect!"}) = {2}
             /\ Cardinality(Places(resp.events, {"sendall", "sendall!"})) <= 1
             /\ Places(resp.events, {"close"}) = {Len(resp.events) - 1}
             /\ Places(resp.events, StatusCodes) = {Len(resp.events)})
    /\ [](\A c \in HttpConns : conns[c].peerClosed)
    /\ [][Len(conns') <= Len(conns) + 1]_vars

\* a request whose sendall raised after the connect: closed, then answered 500
C18_Witness ==
    /\ ValidPost
    /\ resp.events = <<"socket", "connect", "sendall!", "close", "500">>
    /\ \E c \in HttpConns : ~conns[c].sent /\ conns[c].peerClosed

\* C19: records are in the collection in the order in which their connections
\* were accepted, each connection has at most one record, and there are never
\* more records than accepted connections.
C19_AcceptOrder ==
    /\ \A i, j \in 1..Len(collection) :
          i < j => /\ conns[collection[i].conn].acc >= 1
                   /\ conns[collection[i].conn].acc < conns[collection[j].conn].acc
    /\ \A c, d \in Conns :
          (conns[c].acc >= 1 /\ conns[d].acc >= 1 /\ c # d) =>
              conns[c].acc # conns[d].acc
    /\ \A c \in Conns : conns[c].acc >= 1 <=> conns[c].st # "backlog"
    /\ Len(collection) <= Accepted

\* the one record is of the second connection accepted: the first has none
C19_Witness ==
    /\ Len(collection) = 1
    /\ Accepted = 2
    /\ conns[collection[1].conn].acc = 2
    /\ conns[1].outcome = "insert_failed"

====
